---- MODULE Spec2Model ----
(***************************************************************************)
(* Model of scripts/gen_trending_subriff.py: eight sequential fetches from *)
(* subriff.com, a Counter of appearances, and a most_common(35) ranking.    *)
(*                                                                         *)
(* Line 45 of the source (nsfw = "true") sits inside the parenthesised     *)
(* condition of the if statement of lines 41-46, which Python rejects with *)
(* a SyntaxError.  The model keeps every statement of lines 37-52 and      *)
(* leaves open where the stray assignment executes: `stray' is "body" when *)
(* it runs only in the if body (before the continue of line 47) and "cond" *)
(* when it runs whenever the condition is evaluated.  In both readings the *)
(* continue of line 47 is guarded by the three indicators.                 *)
(*                                                                         *)
(* Spec is a whole run of the script; SpecFetch applies the parsing loop   *)
(* of fetch_subreddits to one response.                                    *)
(***************************************************************************)
EXTENDS Integers, Sequences, FiniteSets, TLC

VARIABLES stray, family, pc, sizeIdx, sortIdx, appearances, data, names,
          outcome, calls, stdout, result

vars == <<stray, family, pc, sizeIdx, sortIdx, appearances, data, names,
          outcome, calls, stdout, result>>

\* ------------------------------------------------------------ constants
SIZE_FILTERS == <<"medium-small", "medium", "large", "xlarge">>
SORT_PERIODS == <<"daily", "weekly">>
FINAL_OUTPUT_LIMIT == 35

\* ------------------------------------------------------------ bounds
\* longest response (number of entries) handed to fetch_subreddits alone
MaxEntries == 2
\* longest response drawn from RunEntries during a whole run
MaxLen == 1

\* ------------------------------------------------------------ inputs
\* Entries of data["subreddits"]: dicts in which any key may be absent.
Entries ==
  { [displayName |-> "a"],
    [displayName |-> "b", isNsfw |-> FALSE],
    [displayName |-> "a", isNsfw |-> TRUE],
    [displayName |-> "b", internal_IsNsfw |-> TRUE],
    [displayName |-> "a", isNsfw |-> FALSE, suggested_Internal_IsNsfw |-> TRUE],
    [displayName |-> ""],
    [isNsfw |-> FALSE] }

SeqsUpTo(S, n) == UNION { [1..m -> S] : m \in 0..n }

\* inputs of fetch_subreddits taken alone
FetchResponses == SeqsUpTo(Entries, MaxEntries)

\* Inputs of a whole run.  A run draws every response from one family:
\* short pages over two names (with a page that lists both names, a page
\* that lists one name twice and a page whose entry has no displayName), or
\* a page of FINAL_OUTPUT_LIMIT + 1 distinct names together with a page
\* repeating the last of them.
RunEntries == { [displayName |-> "a"], [displayName |-> "b"],
                [displayName |-> ""] }
SmallPages == SeqsUpTo(RunEntries, MaxLen)
                \cup { <<[displayName |-> "a"], [displayName |-> "b"]>>,
                       <<[displayName |-> "b"], [displayName |-> "b"]>>,
                       <<[isNsfw |-> FALSE]>> }
WideNames == <<"w01", "w02", "w03", "w04", "w05", "w06", "w07", "w08", "w09", "w10", "w11", "w12", "w13", "w14", "w15", "w16", "w17", "w18", "w19", "w20", "w21", "w22", "w23", "w24", "w25", "w26", "w27", "w28", "w29", "w30", "w31", "w32", "w33", "w34", "w35", "w36">>
Wide == [k \in 1..Len(WideNames) |-> [displayName |-> WideNames[k]]]
WidePages == { Wide, <<[displayName |-> WideNames[Len(WideNames)]]>> }
Pages(fam) == IF fam = "small" THEN SmallPages ELSE WidePages

\* ------------------------------------------------------------ fetch_subreddits
\* dict.get(key, default)
Get(sub, key, default) == IF key \in DOMAIN sub THEN sub[key] ELSE default

\* variant of AnyNsfwFlag that reads only the first indicator
AnyNsfwFlagFirstOnly(sub) == Get(sub, "isNsfw", FALSE)

\* lines 41-44: the or-chain over the three indicators (absent is falsy)
AnyNsfwFlag(sub) ==
  \/ Get(sub, "isNsfw", FALSE)
  \/ Get(sub, "internal_IsNsfw", FALSE)
  \/ Get(sub, "suggested_Internal_IsNsfw", FALSE)

\* value of the local nsfw at line 50, for an entry that was not skipped:
\* "" from line 40, overwritten by line 45 only if that line ran
NsfwLocal(sub, placement) ==
  IF placement = "cond" \/ AnyNsfwFlag(sub) THEN "true" ELSE ""

\* variant of Appended without the test of line 49
AppendedAnyName(sub, placement) ==
  /\ ~AnyNsfwFlag(sub)
  /\ NsfwLocal(sub, placement) # ""

\* lines 39-51: TRUE when the loop iteration for sub reaches names.append
Appended(sub, placement) ==
  /\ ~AnyNsfwFlag(sub)                                   \* line 47, continue
  /\ Get(sub, "displayName", "") # ""                    \* line 49
  /\ NsfwLocal(sub, placement) # ""                      \* line 50

\* lines 37-52: the list fetch_subreddits returns for a parsed response: the
\* displayName of every entry whose iteration appended, in response order
FetchNames(subs, placement) ==
  LET Keep(sub) == Appended(sub, placement)
      kept == SelectSeq(subs, Keep)
  IN  [k \in 1..Len(kept) |-> Get(kept[k], "displayName", "")]

\* ------------------------------------------------------------ Counter
\* The Counter is a dict: a sequence of (name, count) in insertion order.
Keys(c) == { c[k].name : k \in 1..Len(c) }

\* number of elements of ns equal to n
Occurrences(ns, n) == Cardinality({ k \in 1..Len(ns) : ns[k] = n })

\* line 63: appearances.update(names) runs self[elem] = self.get(elem, 0) + 1
\* for each element in order.  An existing key keeps its place in the dict
\* and gains one per occurrence; a new key is inserted at the end, at its
\* first occurrence.
Update(c, ns) ==
  LET IsFirstNew(k) == /\ ns[k] \notin Keys(c)
                       /\ \A j \in 1..(k - 1) : ns[j] # ns[k]
      firsts == SelectSeq([k \in 1..Len(ns) |-> k], IsFirstNew)
  IN  [k \in 1..Len(c) |->
         [name |-> c[k].name, count |-> c[k].count + Occurrences(ns, c[k].name)]]
      \o
      [i \in 1..Len(firsts) |->
         [name |-> ns[firsts[i]], count |-> Occurrences(ns, ns[firsts[i]])]]

\* largest count held by the Counter (0 when it is empty)
MaxCount(c) ==
  IF c = <<>> THEN 0
  ELSE LET counts == { c[k].count : k \in 1..Len(c) }
       IN  CHOOSE m \in counts : \A x \in counts : x <= m

RECURSIVE ByCountDown(_, _)
\* the entries with count v in dict order, then those with smaller counts
ByCountDown(c, v) ==
  IF v = 0 THEN <<>>
  ELSE LET HasCount(e) == e.count = v
       IN  SelectSeq(c, HasCount) \o ByCountDown(c, v - 1)

\* variant of SortDesc that leaves the items in dict order
SortDescUnsorted(c) == c

\* variant of SortDesc that is not stable: equal counts come out reversed
SortDescUnstable(c) ==
  ByCountDown([k \in 1..Len(c) |-> c[Len(c) + 1 - k]], MaxCount(c))

\* sorted(items, key=itemgetter(1), reverse=True): descending count, and
\* stable, so entries of equal count stay in dict order
SortDesc(c) == ByCountDown(c, MaxCount(c))

Min(x, y) == IF x <= y THEN x ELSE y

\* variant of MostCommon that ignores n
MostCommonAll(c, n) == SortDesc(c)

\* line 68: Counter.most_common(n)
MostCommon(c, n) == SubSeq(SortDesc(c), 1, Min(n, Len(c)))

\* line 69: [name for name, _ in top]
NamesOf(top) == [k \in 1..Len(top) |-> top[k].name]

\* ------------------------------------------------------------ the run
Init ==
  /\ stray \in {"body", "cond"}
  /\ family \in {"small", "wide"}
  /\ pc = "loop"
  /\ sizeIdx = 1
  /\ sortIdx = 1
  /\ appearances = <<>>
  /\ data = <<>>
  /\ names = <<>>
  /\ outcome = "none"
  /\ calls = <<>>
  /\ stdout = <<>>
  /\ result = <<>>

\* variant of NextCombination with the two loops exchanged
NextCombinationSortOuter ==
  /\ calls' = Append(calls, <<SIZE_FILTERS[sizeIdx], SORT_PERIODS[sortIdx]>>)
  /\ IF sizeIdx < Len(SIZE_FILTERS)
     THEN /\ sizeIdx' = sizeIdx + 1
          /\ sortIdx' = sortIdx
          /\ pc' = "loop"
     ELSE /\ sizeIdx' = 1
          /\ sortIdx' = sortIdx + 1
          /\ pc' = IF sortIdx < Len(SORT_PERIODS) THEN "loop" ELSE "rank"

\* lines 59-60: the nested for loops step to the next combination
NextCombination ==
  /\ calls' = Append(calls, <<SIZE_FILTERS[sizeIdx], SORT_PERIODS[sortIdx]>>)
  /\ IF sortIdx < Len(SORT_PERIODS)
     THEN /\ sortIdx' = sortIdx + 1
          /\ sizeIdx' = sizeIdx
          /\ pc' = "loop"
     ELSE /\ sortIdx' = 1
          /\ sizeIdx' = sizeIdx + 1
          /\ pc' = IF sizeIdx < Len(SIZE_FILTERS) THEN "loop" ELSE "rank"

\* lines 62-63: the fetch returns and its names are counted
FetchOk ==
  /\ pc = "loop"
  /\ \E d \in Pages(family) :
       /\ data' = d
       /\ names' = FetchNames(d, stray)
       /\ appearances' = Update(appearances, FetchNames(d, stray))
  /\ outcome' = "ok"
  /\ NextCombination
  /\ UNCHANGED <<stray, family, stdout, result>>

\* variant of FetchFail without the except clause: the exception ends the run
FetchFailEscapes ==
  /\ pc = "loop"
  /\ outcome' = "failed"
  /\ calls' = Append(calls, <<SIZE_FILTERS[sizeIdx], SORT_PERIODS[sortIdx]>>)
  /\ pc' = "done"
  /\ UNCHANGED <<stray, family, sizeIdx, sortIdx, appearances, data, names, stdout, result>>

\* lines 33-35, 64-65: the fetch raises; print() writes the warning to stdout
FetchFail ==
  /\ pc = "loop"
  /\ outcome' = "failed"
  /\ stdout' = Append(stdout,
                 <<"Warning: Failed to fetch", SIZE_FILTERS[sizeIdx], SORT_PERIODS[sortIdx]>>)
  /\ NextCombination
  /\ UNCHANGED <<stray, family, appearances, data, names, result>>

\* lines 68-69
Rank ==
  /\ pc = "rank"
  /\ result' = NamesOf(MostCommon(appearances, FINAL_OUTPUT_LIMIT))
  /\ pc' = "print"
  /\ UNCHANGED <<stray, family, sizeIdx, sortIdx, appearances, data, names, outcome, calls, stdout>>

\* lines 73-74: one print() per result name
PrintResults ==
  /\ pc = "print"
  /\ stdout' = stdout \o [k \in 1..Len(result) |-> <<result[k]>>]
  /\ pc' = "done"
  /\ UNCHANGED <<stray, family, sizeIdx, sortIdx, appearances, data, names, outcome, calls, result>>

Next == FetchFail \/ FetchOk \/ Rank \/ PrintResults

Spec == Init /\ [][Next]_vars

\* ------------------------------------------------------------ fetch_subreddits alone
InitFetch ==
  /\ stray \in {"body", "cond"}
  /\ family = "small"
  /\ pc = "parse"
  /\ sizeIdx = 1
  /\ sortIdx = 1
  /\ appearances = <<>>
  /\ data \in FetchResponses
  /\ names = <<>>
  /\ outcome = "none"
  /\ calls = <<>>
  /\ stdout = <<>>
  /\ result = <<>>

\* lines 37-52 applied to the parsed response
ParseResponse ==
  /\ pc = "parse"
  /\ names' = FetchNames(data, stray)
  /\ outcome' = "ok"
  /\ pc' = "parsed"
  /\ UNCHANGED <<stray, family, sizeIdx, sortIdx, appearances, data, calls, stdout, result>>

NextFetch == ParseResponse

SpecFetch == InitFetch /\ [][NextFetch]_vars

\* ------------------------------------------------------------ properties
\* helpers that read the state without the model's operators
IsWarning(line) == Len(line) = 3 /\ line[1] = "Warning: Failed to fetch"
Warnings == { k \in 1..Len(stdout) : IsWarning(stdout[k]) }
Tally(n) == IF \E k \in 1..Len(appearances) : appearances[k].name = n
            THEN appearances[CHOOSE k \in 1..Len(appearances) : appearances[k].name = n].count
            ELSE 0
InResult(n) == \E k \in 1..Len(result) : result[k] = n
ResultPos(n) == CHOOSE k \in 1..Len(result) : result[k] = n
TallyPos(n) == CHOOSE k \in 1..Len(appearances) : appearances[k].name = n
Ranked == pc \in {"print", "done"}
\* the eight combinations in nested order, outer size filter, inner sort period
AllCombinations ==
  << <<"medium-small", "daily">>, <<"medium-small", "weekly">>,
     <<"medium", "daily">>,       <<"medium", "weekly">>,
     <<"large", "daily">>,        <<"large", "weekly">>,
     <<"xlarge", "daily">>,       <<"xlarge", "weekly">> >>
Flagged(sub) == \E key \in {"isNsfw", "internal_IsNsfw", "suggested_Internal_IsNsfw"} :
                   key \in DOMAIN sub /\ sub[key] = TRUE
NameOf(sub) == IF "displayName" \in DOMAIN sub THEN sub.displayName ELSE ""
RECURSIVE IsSubSeq(_, _)
IsSubSeq(s, t) ==
  IF s = <<>> THEN TRUE
  ELSE IF t = <<>> THEN FALSE
  ELSE IF Head(s) = Head(t) THEN IsSubSeq(Tail(s), Tail(t))
  ELSE IsSubSeq(s, Tail(t))

\* C1: the result list has at most FINAL_OUTPUT_LIMIT (35) names and holds
\* no name more than once, whatever the eight fetches returned or raised.
C1_ResultBoundedDistinct ==
  /\ Len(result) <= 35
  /\ Cardinality({ result[k] : k \in 1..Len(result) }) = Len(result)

C1_Witness ==
  /\ pc = "done"
  /\ Len(appearances) > 35
  /\ Len(result) = 35

\* C2: a name with a strictly greater count than a name of the result list
\* is itself in the result list, at a smaller index.
C2_DescendingPrefix ==
  Ranked =>
    \A i, j \in 1..Len(appearances) :
      appearances[i].count > appearances[j].count =>
        (InResult(appearances[j].name) =>
           /\ InResult(appearances[i].name)
           /\ ResultPos(appearances[i].name) < ResultPos(appearances[j].name))

C2_Witness ==
  /\ pc = "done"
  /\ \E i, j \in 1..Len(appearances) :
       /\ i > j
       /\ appearances[i].count > appearances[j].count
       /\ InResult(appearances[i].name) /\ InResult(appearances[j].name)
       /\ ResultPos(appearances[i].name) < ResultPos(appearances[j].name)

\* C3: a failing fetch leaves the tally as it was, prints one warning that
\* names its (size filter, sort period), and the loop goes on to the next
\* combination or to the ranking; when all eight fail the result is empty.
C3_FailureContained ==
  /\ [](Ranked /\ Cardinality(Warnings) = 8 => result = <<>>)
  /\ [][ (outcome' = "failed" /\ calls' # calls) =>
           /\ appearances' = appearances
           /\ stdout' = Append(stdout, <<"Warning: Failed to fetch",
                                         AllCombinations[Len(calls) + 1][1],
                                         AllCombinations[Len(calls) + 1][2]>>)
           /\ pc' = IF Len(calls') < 8 THEN "loop" ELSE "rank" ]_vars

C3_Witness ==
  /\ pc = "done"
  /\ outcome = "failed"
  /\ Cardinality(Warnings) = 2
  /\ appearances # <<>>
  /\ result # <<>>

\* C4: an entry with a truthy NSFW indicator contributes nothing to the
\* names fetch_subreddits returns: the names are drawn, in order, from the
\* entries without a truthy indicator.
UnflaggedNames(subs) ==
  LET Keep(sub) == ~Flagged(sub) /\ NameOf(sub) # ""
      kept == SelectSeq(subs, Keep)
  IN  [k \in 1..Len(kept) |-> NameOf(kept[k])]

C4_FlaggedExcluded ==
  pc = "parsed" => IsSubSeq(names, UnflaggedNames(data))

C4_Witness ==
  /\ pc = "parsed"
  /\ \E k \in 1..Len(data) : Flagged(data[k]) /\ NameOf(data[k]) # ""
  /\ names # <<>>

FirstIn(ns, n) == CHOOSE k \in 1..Len(ns) : ns[k] = n /\ \A j \in 1..(k - 1) : ns[j] # n

C6_TiesInFirstSeenOrder ==
  /\ [](Ranked =>
         /\ \A p \in 1..(Len(result) - 1) :
              /\ Tally(result[p]) >= Tally(result[p + 1])
              /\ Tally(result[p]) = Tally(result[p + 1])
                   => TallyPos(result[p]) < TallyPos(result[p + 1])
         /\ \A k \in 1..Len(appearances) :
              ~InResult(appearances[k].name) =>
                \A p \in 1..Len(result) :
                  Tally(result[p]) = appearances[k].count => TallyPos(result[p]) < k)
  /\ [][ /\ Len(appearances') >= Len(appearances)
         /\ \A k \in 1..Len(appearances) : appearances'[k].name = appearances[k].name
         /\ \A p \in (Len(appearances) + 1)..(Len(appearances') - 1) :
              FirstIn(names', appearances'[p].name)
                < FirstIn(names', appearances'[p + 1].name) ]_vars

C6_Witness ==
  /\ pc = "done"
  /\ result = <<"b", "a">>
  /\ Tally("a") = Tally("b")

\* C7: standard output holds result names only, no warning text.
C7_StdoutOnlyResults ==
  \A k \in 1..Len(stdout) : ~IsWarning(stdout[k])

\* C8: the combinations are fetched once each in nested order (size filter
\* outer, sort period inner), a failed one is not fetched again, the ranking
\* follows the eighth call, and the run ends: every state before the end has
\* a next step, and every step advances a counter that stops at 10.
Progress == Len(calls) + (IF pc = "print" THEN 1 ELSE IF pc = "done" THEN 2 ELSE 0)

C8_FixedOrderOnce ==
  /\ [](/\ Len(calls) <= 8
        /\ calls = SubSeq(AllCombinations, 1, Len(calls))
        /\ (pc = "loop" <=> Len(calls) < 8)
        /\ (pc # "done" => ENABLED Next))
  /\ [][Progress' = Progress + 1]_vars

C8_Witness ==
  /\ pc = "done"
  /\ calls = AllCombinations
  /\ Cardinality(Warnings) = 3

\* C9: the empty string is never a key of the tally, and never an element
\* of the list fetch_subreddits returns.
C9_NoEmptyName ==
  /\ \A k \in 1..Len(appearances) : appearances[k].name # ""
  /\ \A k \in 1..Len(names) : names[k] # ""

C9_Witness ==
  /\ stray = "cond"
  /\ outcome = "ok"
  /\ \E k \in 1..Len(data) : NameOf(data[k]) = "" /\ ~Flagged(data[k])
  /\ appearances # <<>>

\* C10: every entry without a truthy NSFW indicator and with a non-empty
\* displayName contributes its displayName, in response order.
C10_PassingEntriesReturned ==
  pc = "parsed" => names = UnflaggedNames(data)

====
